---- MODULE Spec2Model ----
(***************************************************************************)
(* State-machine model of Excalidraw_Interface.SketchBuilder               *)
(* (src/Excalidraw_Interface/sketch_builder.py).                           *)
(*                                                                         *)
(* The builder is a single-threaded object: one action per public method,  *)
(* each action the whole method body.  The modules `primitives` and        *)
(* `defaults` that the builder imports are modelled from the written       *)
(* specification (sections 3, 4.1-4.4).                                    *)
(*                                                                         *)
(* Conventions                                                             *)
(*   - Python None is the string "None".                                   *)
(*   - A Python dict is a TLA+ function whose domain is its key set.       *)
(*   - uuid.uuid4() is a fresh value drawn from a counter.                 *)
(*   - A primitive object is identified by its id; draw_objs holds the     *)
(*     objects themselves, so mutating an object is an EXCEPT on its slot. *)
(*   - Angles are integers in units of pi/4 (Pi == 4); every pair of       *)
(*     centres the specifications use is axis-aligned or diagonal, so      *)
(*     atan2 is exact in these units.                                      *)
(*   - A path is a sequence of tokens: ".", the literal "excalidraw", and  *)
(*     "a" for any other character.                                        *)
(***************************************************************************)
EXTENDS Integers, Sequences, FiniteSets, TLC

VARIABLES
    status,         \* "new" before __init__, "ready" after it, "failed" if it raised
    BOX_DEFAULTS,   \* self.BOX_DEFAULTS
    LINE_DEFAULTS,  \* self.LINE_DEFAULTS
    TEXT_DEFAULTS,  \* self.TEXT_DEFAULTS
    custom,         \* the custom_defaults the constructor was called with
    draw_objs,      \* self.draw_objs
    elements,       \* self.data['elements']
    file,           \* the file last written, [path, doc], or "None"
    next_uuid,      \* source of uuid4 values
    exports,        \* number of export_to_file calls made
    last_op,        \* name of the last public method called
    args,           \* the arguments of that call
    failed,         \* whether that call raised
    ret,            \* ids of the primitive that call returned: {} for None
    created,        \* ids of the primitives that call constructed
    angles          \* <<theta, inverted_theta>> last passed to get_edge_midpoint

vars == <<status, BOX_DEFAULTS, LINE_DEFAULTS, TEXT_DEFAULTS, custom, draw_objs,
          elements, file, next_uuid, exports, last_op, args, failed, ret,
          created, angles>>

(***************************************************************************)
(* Bounds of the model.                                                    *)
(***************************************************************************)
MaxObjs == 2
MaxGeometryObjs == 3
MaxExports == 2
MaxCustom == 2
MaxPathLen == 3

(***************************************************************************)
(* Python helpers.                                                         *)
(***************************************************************************)
None == "None"

EmptyDict == [k \in {} |-> None]

\* dict(base); dict.update(over): keys of `over` win.
Update(base, over) ==
    [k \in DOMAIN base \cup DOMAIN over |->
        IF k \in DOMAIN over THEN over[k] ELSE base[k]]

\* d[key] = value
SetItem(d, key, value) ==
    [k \in DOMAIN d \cup {key} |-> IF k = key THEN value ELSE d[k]]

Abs(n) == IF n < 0 THEN -n ELSE n

Min(a, b) == IF a <= b THEN a ELSE b

(***************************************************************************)
(* defaults.py: the three default tables.                                  *)
(***************************************************************************)
DEFAULTS_BOX ==
    [strokeColor |-> "#000000", opacity |-> "100"]

DEFAULTS_LINE ==
    [startArrowhead |-> None, endArrowhead |-> None]

DEFAULTS_TEXT ==
    [fontSize |-> "20"]

(***************************************************************************)
(* SketchBuilder.__init__                                                  *)
(***************************************************************************)
InitBox == DEFAULTS_BOX

InitLine == Update(DEFAULTS_BOX, DEFAULTS_LINE)

InitText == Update(DEFAULTS_BOX, DEFAULTS_TEXT)

\* Variant of ApplyCustomDefault: the text-profile branch does not set `used`.
ApplyCustomDefault_TextUnused(st, key, value) ==
    LET inBox  == key \in DOMAIN st.box
        box1   == IF inBox THEN SetItem(st.box, key, value) ELSE st.box
        inLine == key \in DOMAIN st.line
        box2   == IF inLine THEN SetItem(box1, key, value) ELSE box1
        inText == key \in DOMAIN st.text
        box3   == IF inText THEN SetItem(box2, key, value) ELSE box2
        used   == inBox \/ inLine
    IN  [box |-> box3, line |-> st.line, text |-> st.text, ok |-> used]

\* One iteration of the loop over custom_defaults.items().  `st` is
\* [box, line, text, ok]; the result has ok = FALSE when the key raised.
ApplyCustomDefault(st, key, value) ==
    LET inBox  == key \in DOMAIN st.box
        box1   == IF inBox THEN SetItem(st.box, key, value) ELSE st.box
        inLine == key \in DOMAIN st.line
        box2   == IF inLine THEN SetItem(box1, key, value) ELSE box1
        inText == key \in DOMAIN st.text
        box3   == IF inText THEN SetItem(box2, key, value) ELSE box2
        used   == inBox \/ inLine \/ inText
    IN  [box |-> box3, line |-> st.line, text |-> st.text, ok |-> used]

\* The loop: stops at the first key that raises.
RECURSIVE ApplyCustomDefaults(_, _)
ApplyCustomDefaults(st, items) ==
    IF items = <<>> \/ ~st.ok THEN st
    ELSE ApplyCustomDefaults(ApplyCustomDefault(st, items[1][1], items[1][2]),
                             Tail(items))

Constructed(items) ==
    ApplyCustomDefaults(
        [box |-> InitBox, line |-> InitLine, text |-> InitText, ok |-> TRUE],
        items)

\* Keys and values a caller may pass as custom defaults.
CustomKeys ==
    {"strokeColor", "opacity", "startArrowhead", "endArrowhead", "fontSize", "bogus"}

CustomValues == {"v1", "v2"}

\* custom_defaults: at most MaxCustom items with pairwise distinct keys.
CustomItems ==
    {s \in UNION {[1..n -> CustomKeys \X CustomValues] : n \in 0..MaxCustom} :
        \A i, j \in DOMAIN s : i # j => s[i][1] # s[j][1]}

Construct(items) ==
    /\ status = "new"
    /\ LET st == Constructed(items)
       IN  /\ status' = IF st.ok THEN "ready" ELSE "failed"
           /\ BOX_DEFAULTS' = st.box
           /\ LINE_DEFAULTS' = st.line
           /\ TEXT_DEFAULTS' = st.text
           /\ failed' = ~st.ok
    /\ custom' = items
    /\ last_op' = "__init__"
    /\ args' = [custom_defaults |-> items]
    /\ UNCHANGED <<draw_objs, elements, file, next_uuid, exports, ret, created,
                   angles>>

(***************************************************************************)
(* primitives.py: the primitive objects.                                   *)
(***************************************************************************)
CHAR_WIDTH == 2

LINE_HEIGHT == 4

\* str.split(sep) on a sequence of characters: the pieces between separators.
RECURSIVE Split(_, _)
Split(s, sep) ==
    IF \A i \in DOMAIN s : s[i] # sep THEN <<s>>
    ELSE LET k == CHOOSE i \in DOMAIN s :
                      s[i] = sep /\ \A j \in 1..(i - 1) : s[j] # sep
         IN  <<SubSeq(s, 1, k - 1)>> \o Split(SubSeq(s, k + 1, Len(s)), sep)

RECURSIVE MaxLen(_)
MaxLen(ss) ==
    IF ss = <<>> THEN 0
    ELSE LET m == MaxLen(Tail(ss))
         IN  IF Len(ss[1]) > m THEN Len(ss[1]) ELSE m

\* ExcaliDrawPrimitive.__init__: identity, geometry, merged style, no groups.
Primitive(id, type, defaults, x, y, width, height, kwargs) ==
    [id |-> id, type |-> type, x |-> x, y |-> y,
     width |-> width, height |-> height,
     style |-> Update(defaults, kwargs),
     groupIds |-> <<>>, text |-> <<>>, points |-> <<>>,
     startBinding |-> None, endBinding |-> None]

Shape(id, type, defaults, x, y, width, height, kwargs) ==
    Primitive(id, type, defaults, x, y, width, height, kwargs)

\* Text: the box is computed from the content.
TextPrimitive(id, text, defaults, x, y, kwargs) ==
    LET lines == Split(text, "\n")
    IN  [Primitive(id, "text", defaults, x, y,
                   CHAR_WIDTH * MaxLen(lines), LINE_HEIGHT * Len(lines), kwargs)
            EXCEPT !.text = text]

\* Line: two points relative to the first; the box is that of the points.
LinePrimitive(id, type, defaults, start_pt, end_pt, kwargs) ==
    LET dx == end_pt[1] - start_pt[1]
        dy == end_pt[2] - start_pt[2]
    IN  [Primitive(id, type, defaults, start_pt[1], start_pt[2],
                   Abs(dx), Abs(dy), kwargs)
            EXCEPT !.points = <<<<0, 0>>, <<dx, dy>>>>]

\* The center property.
Center(p) == <<p.x, p.y>>

\* set_start_binding / set_end_binding: the relation recorded on the line.
Binding(target, padding) ==
    [elementId |-> target.id, gap |-> padding]

\* export(): the JSON object of one primitive, a copy of its current state.
ExportPrimitive(p) ==
    Update(p.style,
           [id |-> p.id, type |-> p.type, x |-> p.x, y |-> p.y,
            width |-> p.width, height |-> p.height, groupIds |-> p.groupIds,
            text |-> p.text, points |-> p.points,
            startBinding |-> p.startBinding, endBinding |-> p.endBinding])

(***************************************************************************)
(* Angles, in units of pi/4.                                               *)
(***************************************************************************)
Pi == 4

\* math.atan2(dy, dx) for an axis-aligned or diagonal offset: in -Pi+1..Pi.
Atan2(dy, dx) ==
    CASE dx > 0 /\ dy = 0 -> 0
      [] dx > 0 /\ dy > 0 -> 1
      [] dx = 0 /\ dy > 0 -> 2
      [] dx < 0 /\ dy > 0 -> 3
      [] dx < 0 /\ dy = 0 -> Pi
      [] dx < 0 /\ dy < 0 -> -3
      [] dx = 0 /\ dy < 0 -> -2
      [] dx > 0 /\ dy < 0 -> -1
      [] dx = 0 /\ dy = 0 -> 0

\* Whether atan2 of the offset is a multiple of pi/4.
OnGrid(dy, dx) == dx = 0 \/ dy = 0 \/ Abs(dx) = Abs(dy)

\* The unit step of a direction.
Direction(theta) ==
    CASE theta % (2 * Pi) = 0 -> <<1, 0>>
      [] theta % (2 * Pi) = 1 -> <<1, 1>>
      [] theta % (2 * Pi) = 2 -> <<0, 1>>
      [] theta % (2 * Pi) = 3 -> <<-1, 1>>
      [] theta % (2 * Pi) = 4 -> <<-1, 0>>
      [] theta % (2 * Pi) = 5 -> <<-1, -1>>
      [] theta % (2 * Pi) = 6 -> <<0, -1>>
      [] theta % (2 * Pi) = 7 -> <<1, -1>>

\* Largest r with r * r <= n.
ISqrt(n) == CHOOSE r \in 0..n : r * r <= n /\ (r + 1) * (r + 1) > n

\* get_edge_midpoint: the boundary point, pushed out by padding, on the ray
\* from the centre at angle theta.  Coordinates are integers; the diagonal of
\* a diamond or an ellipse is rounded towards the centre.
GetEdgeMidpoint(p, theta, padding) ==
    LET a == p.width \div 2 + padding
        b == p.height \div 2 + padding
        u == Direction(theta)
        t == IF u[2] = 0 THEN a
             ELSE IF u[1] = 0 THEN b
             ELSE IF p.type = "diamond"
                  THEN IF a + b = 0 THEN 0 ELSE (a * b) \div (a + b)
             ELSE IF p.type = "ellipse"
                  THEN IF a + b = 0 THEN 0
                       ELSE ISqrt((a * a * b * b) \div (a * a + b * b))
             ELSE Min(a, b)
    IN  <<p.x + u[1] * t, p.y + u[2] * t>>

(***************************************************************************)
(* SketchBuilder: the creation methods.                                    *)
(***************************************************************************)
\* The state a call leaves behind for its caller.
Outcome(op, arguments, raised, value, new) ==
    /\ last_op' = op
    /\ args' = arguments
    /\ failed' = raised
    /\ ret' = value
    /\ created' = new

\* Python raises TypeError when a **kwargs key repeats a named argument.
Collides(kwargs, named) == DOMAIN kwargs \cap named # {}

add_element(objs, element) == Append(objs, element)

\* The arguments a call is recorded with.
ShapeArgs(x, y, width, height, kwargs) ==
    [x |-> x, y |-> y, width |-> width, height |-> height, kwargs |-> kwargs]

LineArgs(start_pt, end_pt, kwargs) ==
    [start_pt |-> start_pt, end_pt |-> end_pt, kwargs |-> kwargs]

Rectangle(x, y, width, height, kwargs) ==
    /\ status = "ready"
    /\ draw_objs' = add_element(draw_objs,
           Shape(next_uuid, "rectangle", BOX_DEFAULTS, x, y, width, height, kwargs))
    /\ next_uuid' = next_uuid + 1
    /\ Outcome("Rectangle", ShapeArgs(x, y, width, height, kwargs),
               FALSE, {next_uuid}, {next_uuid})
    /\ UNCHANGED <<status, BOX_DEFAULTS, LINE_DEFAULTS, TEXT_DEFAULTS, custom,
                   elements, file, exports, angles>>

Diamond(x, y, width, height, kwargs) ==
    /\ status = "ready"
    /\ draw_objs' = add_element(draw_objs,
           Shape(next_uuid, "diamond", BOX_DEFAULTS, x, y, width, height, kwargs))
    /\ next_uuid' = next_uuid + 1
    /\ Outcome("Diamond", ShapeArgs(x, y, width, height, kwargs),
               FALSE, {next_uuid}, {next_uuid})
    /\ UNCHANGED <<status, BOX_DEFAULTS, LINE_DEFAULTS, TEXT_DEFAULTS, custom,
                   elements, file, exports, angles>>

Ellipse(x, y, width, height, kwargs) ==
    /\ status = "ready"
    /\ draw_objs' = add_element(draw_objs,
           Shape(next_uuid, "ellipse", BOX_DEFAULTS, x, y, width, height, kwargs))
    /\ next_uuid' = next_uuid + 1
    /\ Outcome("Ellipse", ShapeArgs(x, y, width, height, kwargs),
               FALSE, {next_uuid}, {next_uuid})
    /\ UNCHANGED <<status, BOX_DEFAULTS, LINE_DEFAULTS, TEXT_DEFAULTS, custom,
                   elements, file, exports, angles>>

Text(text, x, y, kwargs) ==
    /\ status = "ready"
    /\ draw_objs' = add_element(draw_objs,
           TextPrimitive(next_uuid, text, TEXT_DEFAULTS, x, y, kwargs))
    /\ next_uuid' = next_uuid + 1
    /\ Outcome("Text", [text |-> text, x |-> x, y |-> y, kwargs |-> kwargs],
               FALSE, {next_uuid}, {next_uuid})
    /\ UNCHANGED <<status, BOX_DEFAULTS, LINE_DEFAULTS, TEXT_DEFAULTS, custom,
                   elements, file, exports, angles>>

Line(start_pt, end_pt, kwargs) ==
    /\ status = "ready"
    /\ draw_objs' = add_element(draw_objs,
           LinePrimitive(next_uuid, "line", LINE_DEFAULTS, start_pt, end_pt, kwargs))
    /\ next_uuid' = next_uuid + 1
    /\ Outcome("Line", LineArgs(start_pt, end_pt, kwargs),
               FALSE, {next_uuid}, {next_uuid})
    /\ UNCHANGED <<status, BOX_DEFAULTS, LINE_DEFAULTS, TEXT_DEFAULTS, custom,
                   elements, file, exports, angles>>

\* The arrow primitive self.Arrow builds: kwargs['endArrowhead'] = 'arrow'.
ArrowPrimitive(id, start_pt, end_pt, kwargs) ==
    LinePrimitive(id, "arrow", LINE_DEFAULTS, start_pt, end_pt,
                  SetItem(kwargs, "endArrowhead", "arrow"))

\* The arrow self.DoubleArrow builds: kwargs['startArrowhead'] = 'arrow',
\* then self.Arrow.
DoubleArrowPrimitive(id, start_pt, end_pt, kwargs) ==
    ArrowPrimitive(id, start_pt, end_pt, SetItem(kwargs, "startArrowhead", "arrow"))

Arrow(start_pt, end_pt, kwargs) ==
    /\ status = "ready"
    /\ draw_objs' = add_element(draw_objs,
           ArrowPrimitive(next_uuid, start_pt, end_pt, kwargs))
    /\ next_uuid' = next_uuid + 1
    /\ Outcome("Arrow", LineArgs(start_pt, end_pt, kwargs),
               FALSE, {next_uuid}, {next_uuid})
    /\ UNCHANGED <<status, BOX_DEFAULTS, LINE_DEFAULTS, TEXT_DEFAULTS, custom,
                   elements, file, exports, angles>>

DoubleArrow(start_pt, end_pt, kwargs) ==
    /\ status = "ready"
    /\ draw_objs' = add_element(draw_objs,
           DoubleArrowPrimitive(next_uuid, start_pt, end_pt, kwargs))
    /\ next_uuid' = next_uuid + 1
    /\ Outcome("DoubleArrow", LineArgs(start_pt, end_pt, kwargs),
               FALSE, {next_uuid}, {next_uuid})
    /\ UNCHANGED <<status, BOX_DEFAULTS, LINE_DEFAULTS, TEXT_DEFAULTS, custom,
                   elements, file, exports, angles>>

(***************************************************************************)
(* SketchBuilder.export_to_file                                            *)
(***************************************************************************)
EXTENSION == <<"excalidraw">>

\* save_path.split(".")[-1]
LastComponent(save_path) ==
    LET parts == Split(save_path, ".") IN parts[Len(parts)]

\* if save_path.split(".")[-1] != "excalidraw": save_path += ".excalidraw"
SavePath(save_path) ==
    IF LastComponent(save_path) # EXTENSION
    THEN save_path \o <<".">> \o EXTENSION
    ELSE save_path

\* Variant of Exported: the loop stops one element early.
Exported_SkipLast(elems, objs) ==
    elems \o [i \in 1..(Len(objs) - 1) |-> ExportPrimitive(objs[i])]

\* The loop over self.draw_objs: each element's export() appended.
Exported(elems, objs) ==
    elems \o [i \in 1..Len(objs) |-> ExportPrimitive(objs[i])]

\* self.data as json.dump sees it.
Document(elems) ==
    [type |-> "excalidraw", version |-> 1, source |-> "Excalidraw.py",
     elements |-> elems,
     appState |-> [viewBackgroundColor |-> "#ffffff", gridSize |-> None]]

\* open_ok: whether open(save_path, "w") succeeds.
export_to_file(save_path, open_ok) ==
    /\ status = "ready"
    /\ exports' = exports + 1
    /\ elements' = Exported(elements, draw_objs)
    /\ file' = IF open_ok
               THEN [path |-> SavePath(save_path), doc |-> Document(elements')]
               ELSE file
    /\ Outcome("export_to_file", [save_path |-> save_path],
               ~open_ok, {}, {})
    /\ UNCHANGED <<status, BOX_DEFAULTS, LINE_DEFAULTS, TEXT_DEFAULTS, custom,
                   draw_objs, next_uuid, angles>>

(***************************************************************************)
(* SketchBuilder.create_binding_arrows                                     *)
(***************************************************************************)
\* theta = (theta + math.pi) % (2*math.pi) - math.pi
Theta(dy, dx) == ((Atan2(dy, dx) + Pi) % (2 * Pi)) - Pi

\* Variant of InvertedTheta: the modulo is left out.
InvertedTheta_NoModulo(theta) == theta - Pi

\* inverted_theta = theta % (2*math.pi) - math.pi
InvertedTheta(theta) == (theta % (2 * Pi)) - Pi

\* The line the arrow factory returns, with both bindings set.
\* arrow is None (self.Arrow), "Arrow" or "DoubleArrow".
BindingArrow(id, start, end, arrow, padding, kwargs) ==
    LET center_start   == Center(start)
        center_end     == Center(end)
        dx             == center_end[1] - center_start[1]
        dy             == center_end[2] - center_start[2]
        theta          == Theta(dy, dx)
        inverted_theta == InvertedTheta(theta)
        start_pt       == GetEdgeMidpoint(start, theta, padding)
        end_pt         == GetEdgeMidpoint(end, inverted_theta, padding)
        line           == IF arrow = "DoubleArrow"
                          THEN DoubleArrowPrimitive(id, start_pt, end_pt, kwargs)
                          ELSE ArrowPrimitive(id, start_pt, end_pt, kwargs)
    IN  [line EXCEPT !.startBinding = Binding(start, padding),
                     !.endBinding = Binding(end, padding)]

\* What the call returns: the method has no return statement.
BindingArrowsReturn(line) == {}

\* start, end: the positions in draw_objs of the objects passed.
BindingArgs(i, j, arrow, padding, kwargs) ==
    [start |-> i, end |-> j, arrow |-> arrow, padding |-> padding,
     kwargs |-> kwargs]

create_binding_arrows(i, j, arrow, padding, kwargs) ==
    /\ status = "ready"
    /\ i \in DOMAIN draw_objs /\ j \in DOMAIN draw_objs
    /\ LET start == draw_objs[i]
           end   == draw_objs[j]
           dx    == Center(end)[1] - Center(start)[1]
           dy    == Center(end)[2] - Center(start)[2]
           line  == BindingArrow(next_uuid, start, end, arrow, padding, kwargs)
       IN  /\ OnGrid(dy, dx)
           /\ angles' = <<Theta(dy, dx), InvertedTheta(Theta(dy, dx))>>
           /\ draw_objs' = add_element(draw_objs, line)
           /\ Outcome("create_binding_arrows",
                      BindingArgs(i, j, arrow, padding, kwargs),
                      FALSE, BindingArrowsReturn(line),
                      {next_uuid})
    /\ next_uuid' = next_uuid + 1
    /\ UNCHANGED <<status, BOX_DEFAULTS, LINE_DEFAULTS, TEXT_DEFAULTS, custom,
                   elements, file, exports>>

(***************************************************************************)
(* SketchBuilder.create_bounding_element and TextBox                       *)
(***************************************************************************)
DEFAULT_PADDING == 10

\* Names the factory call function(x=, y=, width=, height=, **kwargs) binds.
FactoryNamed == {"x", "y", "width", "height"}

\* Names the call create_bounding_element(txt, self.Rectangle, **rect_kwargs)
\* has already bound positionally.
BoundingNamed == {"element", "function"}

\* The type the factory builds: None is self.Rectangle.
FactoryType(function) ==
    CASE function = None -> "rectangle"
      [] function = "Rectangle" -> "rectangle"
      [] function = "Diamond" -> "diamond"
      [] function = "Ellipse" -> "ellipse"

\* Variant of BoundingElem: the padding is added once, not on both sides.
BoundingElem_PadOnce(id, element, function, padding, kwargs) ==
    LET element_center == Center(element)
        new_x          == element_center[1]
        new_y          == element_center[2]
        new_width      == element.width + padding
        new_height     == element.height + padding
    IN  Shape(id, FactoryType(function), BOX_DEFAULTS,
              new_x, new_y, new_width, new_height, kwargs)

\* bounding_elem before it is grouped.
BoundingElem(id, element, function, padding, kwargs) ==
    LET element_center == Center(element)
        new_x          == element_center[1]
        new_y          == element_center[2]
        new_width      == element.width + 2 * padding
        new_height     == element.height + 2 * padding
    IN  Shape(id, FactoryType(function), BOX_DEFAULTS,
              new_x, new_y, new_width, new_height, kwargs)

\* draw_objs after a successful create_bounding_element on draw_objs[i]:
\* the factory registers the new shape, then both get the group id.
Bounded(objs, i, function, padding, kwargs, id, group_id) ==
    LET bounding_elem == BoundingElem(id, objs[i], function, padding, kwargs)
        grouped       == [objs EXCEPT ![i].groupIds = Append(@, group_id)]
    IN  add_element(grouped,
                    [bounding_elem EXCEPT !.groupIds = Append(@, group_id)])

\* element is the position in draw_objs of the object passed.
BoundingArgs(i, function, padding, kwargs) ==
    [element |-> i, function |-> function, padding |-> padding, kwargs |-> kwargs]

create_bounding_element(i, function, padding, kwargs) ==
    /\ status = "ready"
    /\ i \in DOMAIN draw_objs
    /\ IF Collides(kwargs, FactoryNamed)
       THEN /\ Outcome("create_bounding_element",
                       BoundingArgs(i, function, padding, kwargs),
                       TRUE, {}, {})
            /\ UNCHANGED <<draw_objs, next_uuid>>
       ELSE /\ draw_objs' = Bounded(draw_objs, i, function, padding, kwargs,
                                    next_uuid, next_uuid + 1)
            /\ next_uuid' = next_uuid + 2
            /\ Outcome("create_bounding_element",
                       BoundingArgs(i, function, padding, kwargs),
                       FALSE, {next_uuid}, {next_uuid})
    /\ UNCHANGED <<status, BOX_DEFAULTS, LINE_DEFAULTS, TEXT_DEFAULTS, custom,
                   elements, file, exports, angles>>

\* Variant of PaddingOf: no padding unless one is given.
PaddingOf_Zero(kwargs) ==
    IF "padding" \in DOMAIN kwargs THEN kwargs["padding"] ELSE 0

\* rect_kwargs may carry padding=; the rest goes on to the factory.
PaddingOf(kwargs) ==
    IF "padding" \in DOMAIN kwargs THEN kwargs["padding"] ELSE DEFAULT_PADDING

WithoutPadding(kwargs) == [k \in DOMAIN kwargs \ {"padding"} |-> kwargs[k]]

\* draw_objs after txt = self.Text(...): the text is registered first.
TextBoxText(objs, id, text, x, y, txt_kwargs) ==
    add_element(objs, TextPrimitive(id, text, TEXT_DEFAULTS, x, y, txt_kwargs))

TextBoxArgs(text, x, y, txt_kwargs, rect_kwargs) ==
    [text |-> text, x |-> x, y |-> y, txt_kwargs |-> txt_kwargs,
     rect_kwargs |-> rect_kwargs]

TextBox(text, x, y, txt_kwargs, rect_kwargs) ==
    /\ status = "ready"
    /\ LET with_txt == TextBoxText(draw_objs, next_uuid, text, x, y, txt_kwargs)
           i        == Len(with_txt)
       IN  IF Collides(rect_kwargs, BoundingNamed \cup FactoryNamed)
           THEN /\ draw_objs' = with_txt
                /\ next_uuid' = next_uuid + 1
                /\ Outcome("TextBox",
                           TextBoxArgs(text, x, y, txt_kwargs, rect_kwargs),
                           TRUE, {}, {next_uuid})
           ELSE /\ draw_objs' = Bounded(with_txt, i, "Rectangle",
                                        PaddingOf(rect_kwargs),
                                        WithoutPadding(rect_kwargs),
                                        next_uuid + 1, next_uuid + 2)
                /\ next_uuid' = next_uuid + 3
                /\ Outcome("TextBox",
                           TextBoxArgs(text, x, y, txt_kwargs, rect_kwargs),
                           FALSE, {next_uuid + 1},
                           {next_uuid, next_uuid + 1})
    /\ UNCHANGED <<status, BOX_DEFAULTS, LINE_DEFAULTS, TEXT_DEFAULTS, custom,
                   elements, file, exports, angles>>

(***************************************************************************)
(* Inputs the specifications draw from.                                    *)
(***************************************************************************)
\* Style overrides, and one that repeats a named argument of the factory.
NoKwargs == EmptyDict

CollidingKwargs == [x |-> 0]

PaddingKwargs == [padding |-> 2]

\* Centres on a horizontal line: left of, right of and on top of each other.
RowCenters == {<<0, 0>>, <<200, 0>>}

\* Corners of a square: every pair is axis-aligned or diagonal.
SquareCenters == {<<0, 0>>, <<40, 0>>, <<0, 40>>, <<40, 40>>}

GeometrySizes == {<<20, 20>>, <<40, 20>>}

Paddings == {0, 1, DEFAULT_PADDING}

Texts == {<<"H", "i">>, <<"a", "\n", "b", "c", "d">>}

\* Primitives an arrow can be bound to or a box drawn around: not lines.
Targets == {i \in DOMAIN draw_objs : draw_objs[i].type \notin {"line", "arrow"}}

\* Paths of at most MaxPathLen tokens.
Paths == UNION {[1..n -> {".", "excalidraw", "a"}] : n \in 0..MaxPathLen}

SomePaths == {<<"a">>, <<"a", ".", "excalidraw">>}

(***************************************************************************)
(* Specifications.                                                         *)
(***************************************************************************)
\* Before __init__ has run.
InitNew ==
    /\ status = "new"
    /\ BOX_DEFAULTS = EmptyDict
    /\ LINE_DEFAULTS = EmptyDict
    /\ TEXT_DEFAULTS = EmptyDict
    /\ custom = <<>>
    /\ draw_objs = <<>>
    /\ elements = <<>>
    /\ file = None
    /\ next_uuid = 1
    /\ exports = 0
    /\ last_op = None
    /\ args = EmptyDict
    /\ failed = FALSE
    /\ ret = {}
    /\ created = {}
    /\ angles = <<0, 0>>

\* After SketchBuilder() with no custom defaults.
Init ==
    /\ status = "ready"
    /\ BOX_DEFAULTS = Constructed(<<>>).box
    /\ LINE_DEFAULTS = Constructed(<<>>).line
    /\ TEXT_DEFAULTS = Constructed(<<>>).text
    /\ custom = <<>>
    /\ draw_objs = <<>>
    /\ elements = <<>>
    /\ file = None
    /\ next_uuid = 1
    /\ exports = 0
    /\ last_op = "__init__"
    /\ args = [custom_defaults |-> <<>>]
    /\ failed = FALSE
    /\ ret = {}
    /\ created = {}
    /\ angles = <<0, 0>>

\* The constructor, over the custom defaults a caller may pass.
NextConstruct == \E items \in CustomItems : Construct(items)

SpecConstruct == InitNew /\ [][NextConstruct]_vars

\* Whether the run may still register n primitives, or export once more.
Room(n, max) == Len(draw_objs) + n <= max

MayExport == exports < MaxExports

\* Every public method of a constructed builder.
Next ==
    \/ Room(1, MaxObjs) /\ Rectangle(0, 0, 100, 100, NoKwargs)
    \/ Room(1, MaxObjs) /\ Diamond(200, 0, 100, 100, NoKwargs)
    \/ Room(1, MaxObjs) /\ Ellipse(0, 0, 100, 100, NoKwargs)
    \/ Room(1, MaxObjs) /\ Text(<<"H", "i">>, 200, 0, NoKwargs)
    \/ Room(1, MaxObjs) /\ Line(<<0, 0>>, <<200, 0>>, NoKwargs)
    \/ Room(1, MaxObjs) /\ Arrow(<<0, 0>>, <<200, 0>>, NoKwargs)
    \/ Room(1, MaxObjs) /\ DoubleArrow(<<0, 0>>, <<200, 0>>, NoKwargs)
    \/ /\ Room(1, MaxObjs)
       /\ \E i, j \in Targets, a \in {None, "DoubleArrow"} :
             create_binding_arrows(i, j, a, DEFAULT_PADDING, NoKwargs)
    \/ /\ Room(1, MaxObjs)
       /\ \E i \in Targets, f \in {None, "Ellipse"},
             k \in {NoKwargs, CollidingKwargs} :
             create_bounding_element(i, f, DEFAULT_PADDING, k)
    \/ /\ Room(2, MaxObjs)
       /\ \E k \in {NoKwargs, CollidingKwargs} :
             TextBox(<<"H", "i">>, 0, 0, NoKwargs, k)
    \/ /\ MayExport
       /\ \E p \in SomePaths, ok \in BOOLEAN : export_to_file(p, ok)

Spec == Init /\ [][Next]_vars

\* Shapes and texts, boxes around them and arrows between them, over more
\* geometry.
NextGeometry ==
    \/ /\ Room(1, MaxGeometryObjs)
       /\ \E c \in SquareCenters, s \in GeometrySizes :
             Rectangle(c[1], c[2], s[1], s[2], NoKwargs)
    \/ /\ Room(1, MaxGeometryObjs)
       /\ \E c \in RowCenters : Ellipse(c[1], c[2], 100, 100, NoKwargs)
    \/ /\ Room(2, MaxGeometryObjs)
       /\ \E t \in Texts, c \in SquareCenters, k \in {NoKwargs, PaddingKwargs} :
             TextBox(t, c[1], c[2], NoKwargs, k)
    \/ /\ Room(1, MaxGeometryObjs)
       /\ \E i \in Targets, f \in {None, "Diamond"}, p \in Paddings :
             create_bounding_element(i, f, p, NoKwargs)
    \/ /\ Room(1, MaxGeometryObjs)
       /\ \E i, j \in Targets, p \in Paddings :
             create_binding_arrows(i, j, None, p, NoKwargs)

SpecGeometry == Init /\ [][NextGeometry]_vars

\* One primitive and exports to every path.
NextPath ==
    \/ Room(1, MaxObjs) /\ Rectangle(0, 0, 100, 100, NoKwargs)
    \/ /\ MayExport
       /\ \E p \in Paths, ok \in BOOLEAN : export_to_file(p, ok)

SpecPath == Init /\ [][NextPath]_vars

(***************************************************************************)
(* Properties.                                                             *)
(***************************************************************************)
Range(f) == {f[i] : i \in DOMAIN f}

\* Group ids two primitives have in common.
CommonGroups(p, q) == Range(p.groupIds) \cap Range(q.groupIds)

\* The last primitive registered, and the one before it.
Newest == draw_objs[Len(draw_objs)]

SecondNewest == draw_objs[Len(draw_objs) - 1]

\* The primitive is not one of the first n registered.
FreshAfter(p, n) == \A k \in 1..n : draw_objs[k].id # p.id

\* The call just made was create_bounding_element(R, padding=p) with the
\* default factory on a rectangle R, and it returned.
BoundedRectangle ==
    /\ last_op = "create_bounding_element"
    /\ ~failed
    /\ args.function = None
    /\ args.kwargs = NoKwargs
    /\ args.padding >= 0
    /\ draw_objs[args.element].type = "rectangle"

\* C1: create_bounding_element(R, padding=p) on a registered rectangle R with
\* the default factory registers and returns a new rectangle with R's centre,
\* width w + 2p and height h + 2p, and R and the result then have exactly one
\* group id in common.
C1_BoundingElement ==
    BoundedRectangle =>
        LET R == draw_objs[args.element]
            B == Newest
        IN  /\ ret = {B.id}
            /\ FreshAfter(B, Len(draw_objs) - 1)
            /\ B.type = "rectangle"
            /\ Center(B) = Center(R)
            /\ B.width = R.width + 2 * args.padding
            /\ B.height = R.height + 2 * args.padding
            /\ Cardinality(CommonGroups(R, B)) = 1

\* A rectangle wider than high, already in one group, boxed with padding 1.
C1_Witness ==
    /\ BoundedRectangle
    /\ args.padding = 1
    /\ draw_objs[args.element].width # draw_objs[args.element].height
    /\ Len(draw_objs[args.element].groupIds) = 2

\* Keys of the three profiles as __init__ builds them.
ProfileKeys == DOMAIN InitBox \cup DOMAIN InitLine \cup DOMAIN InitText

UnknownKeyGiven == \E i \in DOMAIN custom : custom[i][1] \notin ProfileKeys

\* C2: the constructor raises exactly when some custom default's key is in
\* none of the three profiles.
C2_UnknownKeyFails ==
    status # "new" => ((status = "failed") <=> UnknownKeyGiven)

\* A known text-only key accepted, then an unknown key rejected.
C2_Witness ==
    /\ status = "failed"
    /\ Len(custom) = 2
    /\ custom[1][1] = "fontSize"
    /\ custom[2][1] = "bogus"

\* All custom defaults known, one of them a line-only key: no error.
C2_WitnessAccepted ==
    /\ status = "ready"
    /\ Len(custom) = 2
    /\ custom[1][1] = "endArrowhead"

\* C3: the first export_to_file after any creation and composition calls
\* puts every registered primitive exactly once in the element list, in
\* creation order, and that list is the one written.
C3_ExportedOnceInOrder ==
    (last_op = "export_to_file" /\ exports = 1) =>
        /\ Len(elements) = Len(draw_objs)
        /\ \A i \in DOMAIN draw_objs :
              /\ elements[i]["id"] = draw_objs[i].id
              /\ elements[i]["type"] = draw_objs[i].type
        /\ \A i, j \in DOMAIN elements :
              i < j => elements[i]["id"] < elements[j]["id"]
        /\ (~failed => file.doc.elements = elements)

\* A text box, then the first export.
C3_Witness ==
    /\ last_op = "export_to_file"
    /\ exports = 1
    /\ ~failed
    /\ Len(draw_objs) = 2
    /\ draw_objs[1].type = "text"
    /\ draw_objs[2].type = "rectangle"

\* C4: a second export_to_file straight after a first writes the same
\* document.
C4_SecondExportIdentical ==
    [][(/\ last_op = "export_to_file" /\ ~failed
        /\ last_op' = "export_to_file" /\ ~failed'
        /\ exports' = exports + 1)
       => file'.doc = file.doc]_vars

CreationOps ==
    {"Rectangle", "Diamond", "Ellipse", "Text", "Line", "Arrow", "DoubleArrow",
     "create_binding_arrows", "create_bounding_element", "TextBox"}

\* C5: every creation or composition call that returns has registered what it
\* created and returns a primitive it created.
C5_ReturnsCreated ==
    (last_op \in CreationOps /\ ~failed) =>
        /\ created # {}
        /\ \A id \in created : \E i \in DOMAIN draw_objs : draw_objs[i].id = id
        /\ ret # {}
        /\ ret \subseteq created

\* The call just made was TextBox(text, x, y) with no overrides.
PlainTextBox ==
    /\ last_op = "TextBox"
    /\ ~failed
    /\ args.txt_kwargs = NoKwargs
    /\ args.rect_kwargs = NoKwargs

\* C6: TextBox(text, x, y) with no overrides adds exactly two primitives, a
\* text then a rectangle, returns the rectangle, leaves the two with one
\* group id in common, and the rectangle is strictly wider and higher than
\* the text.
C6_TextBox ==
    PlainTextBox =>
        /\ Len(draw_objs) >= 2
        /\ LET T == SecondNewest
               B == Newest
           IN  /\ created = {T.id, B.id}
               /\ T.id # B.id
               /\ FreshAfter(T, Len(draw_objs) - 2)
               /\ FreshAfter(B, Len(draw_objs) - 2)
               /\ T.type = "text"
               /\ T.text = args.text
               /\ Center(T) = <<args.x, args.y>>
               /\ B.type = "rectangle"
               /\ ret = {B.id}
               /\ Cardinality(CommonGroups(T, B)) = 1
               /\ B.width > T.width
               /\ B.height > T.height

\* A two-line text boxed away from the origin.
C6_Witness ==
    /\ PlainTextBox
    /\ Len(Split(args.text, "\n")) = 2
    /\ args.x = 40

\* The path ends with ".excalidraw".
HasExtension(path) ==
    /\ Len(path) >= 2
    /\ SubSeq(path, Len(path) - 1, Len(path)) = <<".">> \o EXTENSION

\* C7: the file is written to a path ending in ".excalidraw": the given path
\* if it has the extension, the given path plus ".excalidraw" if not.
C7_PathHasExtension ==
    (last_op = "export_to_file" /\ ~failed) =>
        /\ HasExtension(file.path)
        /\ HasExtension(args.save_path) => file.path = args.save_path
        /\ ~HasExtension(args.save_path) =>
              file.path = args.save_path \o <<".">> \o EXTENSION

AtomicOps ==
    {"TextBox", "create_bounding_element", "create_binding_arrows",
     "export_to_file"}

\* C8: a call that raises leaves the registered primitives, their group ids
\* and the element list as they were.
C8_AllOrNothing ==
    [][(failed' /\ last_op' \in AtomicOps)
       => (draw_objs' = draw_objs /\ elements' = elements)]_vars

\* C9: after construction each profile that has a custom default's key maps
\* the key to the custom value.
C9_OverridesEveryProfile ==
    status = "ready" =>
        \A i \in DOMAIN custom :
            LET k == custom[i][1]
                v == custom[i][2]
            IN  /\ k \in DOMAIN BOX_DEFAULTS => BOX_DEFAULTS[k] = v
                /\ k \in DOMAIN LINE_DEFAULTS => LINE_DEFAULTS[k] = v
                /\ k \in DOMAIN TEXT_DEFAULTS => TEXT_DEFAULTS[k] = v

\* The call just made was create_binding_arrows between two primitives with
\* distinct centres.
BoundDistinct ==
    /\ last_op = "create_binding_arrows"
    /\ ~failed
    /\ Center(draw_objs[args.start]) # Center(draw_objs[args.end])

\* The offset from the start centre to the end centre, as <<dy, dx>>.
BoundOffset ==
    LET s == Center(draw_objs[args.start])
        e == Center(draw_objs[args.end])
    IN  <<e[2] - s[2], e[1] - s[1]>>

\* The angles passed are the angle of the offset and its antipode, up to
\* whole turns.
AnglesAntipodal ==
    /\ (angles[1] - Atan2(BoundOffset[1], BoundOffset[2])) % (2 * Pi) = 0
    /\ (angles[2] - angles[1] - Pi) % (2 * Pi) = 0

\* C10, as claimed: the start is queried at the angle to the end centre, the
\* end at the antipodal angle, and both angles lie in (-pi, pi].
C10_AnglesInHalfOpenAbove ==
    BoundDistinct =>
        /\ AnglesAntipodal
        /\ \A k \in 1..2 : -Pi < angles[k] /\ angles[k] <= Pi

\* C10, amended: the same, with both angles in [-pi, pi).
C10_AnglesInHalfOpenBelow ==
    BoundDistinct =>
        /\ AnglesAntipodal
        /\ \A k \in 1..2 : -Pi <= angles[k] /\ angles[k] < Pi

\* The end centre directly to the left of the start centre: atan2 = pi.
C10_Witness ==
    /\ BoundDistinct
    /\ BoundOffset[1] = 0
    /\ BoundOffset[2] < 0

====
